---- MODULE Spec2Model ----
(***************************************************************************)
(* Model of package ordered: Map[K, V], a map[K]V with a sorted key index, *)
(* and MapIterator, its iteration cursor.                                  *)
(*                                                                         *)
(* A Go panic is modelled as a call that ends with ret.panic # "" ; the    *)
(* caller may recover (as the tests' panics() helper does), so whatever    *)
(* the call wrote before panicking stays written.                          *)
(***************************************************************************)
EXTENDS Integers, Sequences, FiniteSets, TLC

\* Bounds of the model.
MaxKey == 1          \* keys are 0..MaxKey
MaxVal == 1          \* values are 0..MaxVal
MaxIters == 2        \* at most this many Iter calls succeed
MaxUnderflow == 1    \* Close is not called once m.iter is at -MaxUnderflow

Keys == 0..MaxKey
Values == 0..MaxVal

\* The zero value of V, returned by Get for an absent key.
ZeroV == 0

\* Less: the comparison function for ordered key types.
Less(a, b) == a < b

\* A caller-supplied comparison function that is a strict weak ordering but
\* not a total order on the keys: 0 and 1 are equivalent, both sort before
\* 2 and 3, ...
ByHalf(a, b) == (a \div 2) < (b \div 2)

\* The comparison functions a caller passes to NewMap; "nil" is the nil func.
Comparators == {"Less", "ByHalf"}

\* m.less(a, b), for the comparison function named f.
CallLess(f, a, b) ==
    CASE f = "Less" -> Less(a, b)
      [] f = "ByHalf" -> ByHalf(a, b)
      [] OTHER -> FALSE

\* Cursor handles: 0 is a zero-value MapIterator (mi.m == nil), 1..MaxIters
\* are *MapIterator variables, nil until Iter assigns them.
Handles == 0..MaxIters

VARIABLES
    ptr,     \* the *Map: "nil" (nil pointer), "zero" (zero value) or "new" (built by NewMap)
    less,    \* m.less: "nil" or a member of Comparators
    iter,    \* m.iter: the count of live MapIterators
    keys,    \* m.keys: the sorted list of keys
    m,       \* m.m: the underlying map storage, a function from the present keys
    mi,      \* the MapIterators: mi[c].ref is "nilptr", "zero" or "map"; mi[c].i the position
    closed,  \* history: closed[c] iff Close was called on cursor c and passed its check
    snap,    \* history: snap[c] is Range() as it was when Iter made cursor c, kept until Close is called on c
    out,     \* history: out[c] is the pairs Next has returned on cursor c, while the map is as it was when Iter made c
    mod,     \* history: mod[c] iff m.keys or m.m has changed since Iter made cursor c
    live,    \* history: live[k] = <<v>> iff the latest successful Set(k, v) has no later Delete(k) or Reset, else <<>>
    ret      \* the outcome of the latest call

vars == <<ptr, less, iter, keys, m, mi, closed, snap, out, mod, live, ret>>

\* The outcome of a call: op(c or k) panicked with message panic ("" if it
\* returned), and returned v / ok / kvs. For Set and Delete ok tells whether
\* the call found the key present, for All k is the stop argument and kvs the
\* pairs passed to yield.
Ret(op, c, k, panic, v, ok, kvs) ==
    [op |-> op, c |-> c, k |-> k, panic |-> panic, v |-> v, ok |-> ok, kvs |-> kvs]

EmptyMap == [x \in {} |-> ZeroV]

----------------------------------------------------------------------------
\* Helpers from golang.org/x/exp/slices and the built-in map.

\* m.m[k] with the comma-ok form: <<value, found>>.
MapIndex(mm, k) == IF k \in DOMAIN mm THEN <<mm[k], TRUE>> ELSE <<ZeroV, FALSE>>

\* slices.Index: the index (from 0) of the first occurrence of e in s, or -1.
Index(s, e) ==
    IF \E i \in 1..Len(s) : s[i] = e
    THEN (CHOOSE i \in 1..Len(s) : s[i] = e /\ \A j \in 1..(i - 1) : s[j] # e) - 1
    ELSE -1

\* slices.Delete(s, i, j): s without the elements s[i:j] (indices from 0).
SlicesDelete(s, i, j) == SubSeq(s, 1, i) \o SubSeq(s, j + 1, Len(s))

\* The permutations of the sequence s.
Perms(s) ==
    LET n == Len(s)
        P == {p \in [1..n -> 1..n] : \A i, j \in 1..n : i # j => p[i] # p[j]}
    IN  {[i \in 1..n |-> s[p[i]]] : p \in P}

\* No element sorts strictly before an earlier one.
IsSortedFunc(s, f) == \A i, j \in 1..Len(s) : i < j => ~CallLess(f, s[j], s[i])

SortFuncNoSort(s, f) == {s}

\* slices.SortFunc(s, less): sorts s in ascending order as determined by less.
\* The sort is not stable, so any sorted permutation of s may result.
SortFunc(s, f) == {q \in Perms(s) : IsSortedFunc(q, f)}

----------------------------------------------------------------------------
checkLocksReads(op) ==
    IF ptr = "nil" \/ less = "nil"
    THEN "ordered: a Map must be constructed using NewMap"
    ELSE IF iter # 0
         THEN "ordered: write to Map while MapIterator is not closed"
         ELSE ""

\* Map.check: the panic message of check(op), "" if check returns.
check(op) ==
    IF ptr = "nil" \/ less = "nil"
    THEN "ordered: a Map must be constructed using NewMap"
    ELSE IF op = "rw" /\ iter # 0
         THEN "ordered: write to Map while MapIterator is not closed"
         ELSE ""

\* MapIterator.check: the panic message, "" if check returns.
micheck(c) ==
    IF mi[c].ref = "nilptr" \/ mi[c].ref = "zero"
    THEN "ordered: a MapIterator must be constructed using Map.Iter"
    ELSE ""

\* The slice Range builds: a KeyValue per key of m.keys, in order.
RangeKVs == [i \in 1..Len(keys) |-> <<keys[i], MapIndex(m, keys[i])[1]>>]

\* mod after a write that leaves m.keys = keys2 and m.m = m2.
Modified(keys2, m2) ==
    [c \in Handles |-> mod[c] \/ (mi[c].ref = "map" /\ (keys2 # keys \/ m2 # m))]

Init ==
    /\ ptr \in {"nil", "zero"}
    /\ less = "nil"
    /\ iter = 0
    /\ keys = <<>>
    /\ m = EmptyMap
    /\ mi = [c \in Handles |-> [ref |-> IF c = 0 THEN "zero" ELSE "nilptr", i |-> 0]]
    /\ closed = [c \in Handles |-> FALSE]
    /\ snap = [c \in Handles |-> <<>>]
    /\ out = [c \in Handles |-> <<>>]
    /\ mod = [c \in Handles |-> FALSE]
    /\ live = [k \in Keys |-> <<>>]
    /\ ret = Ret("init", 0, 0, "", 0, FALSE, <<>>)

\* NewMap(f): panics on a nil less, else builds an empty Map.
NewMap(f) ==
    /\ ptr # "new"
    /\ IF f = "nil"
       THEN /\ ret' = Ret("NewMap", 0, 0, "ordered: NewMap must use a non-nil less function", 0, FALSE, <<>>)
            /\ UNCHANGED <<ptr, less, iter, keys, m>>
       ELSE /\ ptr' = "new"
            /\ less' = f
            /\ iter' = 0
            /\ keys' = <<>>
            /\ m' = EmptyMap
            /\ ret' = Ret("NewMap", 0, 0, "", 0, FALSE, <<>>)
    /\ UNCHANGED <<mi, closed, snap, out, mod, live>>

Get(k) ==
    /\ ret' = IF check("ro") # ""
              THEN Ret("Get", 0, k, check("ro"), 0, FALSE, <<>>)
              ELSE Ret("Get", 0, k, "", MapIndex(m, k)[1], FALSE, <<>>)
    /\ UNCHANGED <<ptr, less, iter, keys, m, mi, closed, snap, out, mod, live>>

TryGet(k) ==
    /\ ret' = IF check("ro") # ""
              THEN Ret("TryGet", 0, k, check("ro"), 0, FALSE, <<>>)
              ELSE Ret("TryGet", 0, k, "", MapIndex(m, k)[1], MapIndex(m, k)[2], <<>>)
    /\ UNCHANGED <<ptr, less, iter, keys, m, mi, closed, snap, out, mod, live>>

MapLen ==
    /\ ret' = IF check("ro") # ""
              THEN Ret("Len", 0, 0, check("ro"), 0, FALSE, <<>>)
              ELSE Ret("Len", 0, 0, "", Len(keys), FALSE, <<>>)
    /\ UNCHANGED <<ptr, less, iter, keys, m, mi, closed, snap, out, mod, live>>

SetAlwaysAppends(k, v) ==
    IF check("rw") # ""
    THEN /\ ret' = Ret("Set", 0, k, check("rw"), 0, FALSE, <<>>)
         /\ UNCHANGED <<ptr, less, iter, keys, m, mi, closed, snap, out, mod, live>>
    ELSE /\ keys' \in SortFunc(Append(keys, k), less)
         /\ m' = [x \in DOMAIN m \cup {k} |-> IF x = k THEN v ELSE m[x]]
         /\ live' = [live EXCEPT ![k] = <<v>>]
         /\ ret' = Ret("Set", 0, k, "", 0, MapIndex(m, k)[2], <<>>)
         /\ mod' = Modified(keys', m')
         /\ out' = [c \in Handles |-> IF mod'[c] THEN <<>> ELSE out[c]]
         /\ UNCHANGED <<ptr, less, iter, mi, closed, snap>>

SetWritesBeforeCheck(k, v) ==
    IF check("rw") # ""
    THEN /\ ret' = Ret("Set", 0, k, check("rw"), 0, FALSE, <<>>)
         /\ m' = [x \in DOMAIN m \cup {k} |-> IF x = k THEN v ELSE m[x]]
         /\ UNCHANGED <<ptr, less, iter, keys, mi, closed, snap, out, mod, live>>
    ELSE /\ IF ~MapIndex(m, k)[2]
            THEN keys' \in SortFunc(Append(keys, k), less)
            ELSE keys' = keys
         /\ m' = [x \in DOMAIN m \cup {k} |-> IF x = k THEN v ELSE m[x]]
         /\ live' = [live EXCEPT ![k] = <<v>>]
         /\ ret' = Ret("Set", 0, k, "", 0, MapIndex(m, k)[2], <<>>)
         /\ mod' = Modified(keys', m')
         /\ out' = [c \in Handles |-> IF mod'[c] THEN <<>> ELSE out[c]]
         /\ UNCHANGED <<ptr, less, iter, mi, closed, snap>>

Set(k, v) ==
    IF check("rw") # ""
    THEN /\ ret' = Ret("Set", 0, k, check("rw"), 0, FALSE, <<>>)
         /\ UNCHANGED <<ptr, less, iter, keys, m, mi, closed, snap, out, mod, live>>
    ELSE /\ IF ~MapIndex(m, k)[2]
            THEN keys' \in SortFunc(Append(keys, k), less)
            ELSE keys' = keys
         /\ m' = [x \in DOMAIN m \cup {k} |-> IF x = k THEN v ELSE m[x]]
         /\ live' = [live EXCEPT ![k] = <<v>>]
         /\ ret' = Ret("Set", 0, k, "", 0, MapIndex(m, k)[2], <<>>)
         /\ mod' = Modified(keys', m')
         /\ out' = [c \in Handles |-> IF mod'[c] THEN <<>> ELSE out[c]]
         /\ UNCHANGED <<ptr, less, iter, mi, closed, snap>>

DeleteKeepsValue(k) ==
    IF check("rw") # ""
    THEN /\ ret' = Ret("Delete", 0, k, check("rw"), 0, FALSE, <<>>)
         /\ UNCHANGED <<ptr, less, iter, keys, m, mi, closed, snap, out, mod, live>>
    ELSE /\ keys' = IF Index(keys, k) # -1
                    THEN SlicesDelete(keys, Index(keys, k), Index(keys, k) + 1)
                    ELSE keys
         /\ live' = [live EXCEPT ![k] = <<>>]
         /\ ret' = Ret("Delete", 0, k, "", 0, Index(keys, k) # -1, <<>>)
         /\ mod' = Modified(keys', m)
         /\ out' = [c \in Handles |-> IF mod'[c] THEN <<>> ELSE out[c]]
         /\ UNCHANGED <<ptr, less, iter, m, mi, closed, snap>>

DeleteFirstWhenMissing(k) ==
    IF check("rw") # ""
    THEN /\ ret' = Ret("Delete", 0, k, check("rw"), 0, FALSE, <<>>)
         /\ UNCHANGED <<ptr, less, iter, keys, m, mi, closed, snap, out, mod, live>>
    ELSE /\ keys' = IF Index(keys, k) # -1
                    THEN SlicesDelete(keys, Index(keys, k), Index(keys, k) + 1)
                    ELSE SlicesDelete(keys, 0, 1)
         /\ m' = [x \in DOMAIN m \ {k} |-> m[x]]
         /\ live' = [live EXCEPT ![k] = <<>>]
         /\ ret' = Ret("Delete", 0, k, "", 0, Index(keys, k) # -1, <<>>)
         /\ mod' = Modified(keys', m')
         /\ out' = [c \in Handles |-> IF mod'[c] THEN <<>> ELSE out[c]]
         /\ UNCHANGED <<ptr, less, iter, mi, closed, snap>>

Delete(k) ==
    IF check("rw") # ""
    THEN /\ ret' = Ret("Delete", 0, k, check("rw"), 0, FALSE, <<>>)
         /\ UNCHANGED <<ptr, less, iter, keys, m, mi, closed, snap, out, mod, live>>
    ELSE /\ keys' = IF Index(keys, k) # -1
                    THEN SlicesDelete(keys, Index(keys, k), Index(keys, k) + 1)
                    ELSE keys
         /\ m' = [x \in DOMAIN m \ {k} |-> m[x]]
         /\ live' = [live EXCEPT ![k] = <<>>]
         /\ ret' = Ret("Delete", 0, k, "", 0, Index(keys, k) # -1, <<>>)
         /\ mod' = Modified(keys', m')
         /\ out' = [c \in Handles |-> IF mod'[c] THEN <<>> ELSE out[c]]
         /\ UNCHANGED <<ptr, less, iter, mi, closed, snap>>

ResetKeysOnly ==
    IF check("rw") # ""
    THEN /\ ret' = Ret("Reset", 0, 0, check("rw"), 0, FALSE, <<>>)
         /\ UNCHANGED <<ptr, less, iter, keys, m, mi, closed, snap, out, mod, live>>
    ELSE /\ keys' = SubSeq(keys, 1, 0)
         /\ live' = [k \in Keys |-> <<>>]
         /\ ret' = Ret("Reset", 0, 0, "", 0, FALSE, <<>>)
         /\ mod' = Modified(keys', m)
         /\ out' = [c \in Handles |-> IF mod'[c] THEN <<>> ELSE out[c]]
         /\ UNCHANGED <<ptr, less, iter, m, mi, closed, snap>>

ResetMapOnly ==
    IF check("rw") # ""
    THEN /\ ret' = Ret("Reset", 0, 0, check("rw"), 0, FALSE, <<>>)
         /\ UNCHANGED <<ptr, less, iter, keys, m, mi, closed, snap, out, mod, live>>
    ELSE /\ m' = EmptyMap
         /\ live' = [k \in Keys |-> <<>>]
         /\ ret' = Ret("Reset", 0, 0, "", 0, FALSE, <<>>)
         /\ mod' = Modified(keys, m')
         /\ out' = [c \in Handles |-> IF mod'[c] THEN <<>> ELSE out[c]]
         /\ UNCHANGED <<ptr, less, iter, keys, mi, closed, snap>>

Reset ==
    IF check("rw") # ""
    THEN /\ ret' = Ret("Reset", 0, 0, check("rw"), 0, FALSE, <<>>)
         /\ UNCHANGED <<ptr, less, iter, keys, m, mi, closed, snap, out, mod, live>>
    ELSE /\ keys' = SubSeq(keys, 1, 0)
         /\ m' = EmptyMap
         /\ live' = [k \in Keys |-> <<>>]
         /\ ret' = Ret("Reset", 0, 0, "", 0, FALSE, <<>>)
         /\ mod' = Modified(keys', m')
         /\ out' = [c \in Handles |-> IF mod'[c] THEN <<>> ELSE out[c]]
         /\ UNCHANGED <<ptr, less, iter, mi, closed, snap>>

Range ==
    /\ ret' = IF check("ro") # ""
              THEN Ret("Range", 0, 0, check("ro"), 0, FALSE, <<>>)
              ELSE Ret("Range", 0, 0, "", 0, FALSE, RangeKVs)
    /\ UNCHANGED <<ptr, less, iter, keys, m, mi, closed, snap, out, mod, live>>

\* The loop of All from the i-th key on: the pairs it passes to yield, when
\* yield returns false on its stop-th call.
RECURSIVE AllLoop(_, _)
AllLoop(i, stop) ==
    IF i > Len(keys)
    THEN <<>>
    ELSE IF i = stop
         THEN << <<keys[i], MapIndex(m, keys[i])[1]>> >>
         ELSE << <<keys[i], MapIndex(m, keys[i])[1]>> >> \o AllLoop(i + 1, stop)

AllYieldsEverything(stop) ==
    /\ ret' = IF ptr = "nil"
              THEN Ret("All", 0, stop, "runtime error: invalid memory address or nil pointer dereference", 0, FALSE, <<>>)
              ELSE Ret("All", 0, stop, "", 0, FALSE, RangeKVs)
    /\ UNCHANGED <<ptr, less, iter, keys, m, mi, closed, snap, out, mod, live>>

\* for k, v := range m.All() { ... }, with a loop body that breaks in its
\* stop-th iteration (yield returns false on its stop-th call). All does not
\* call check: on a nil *Map the loop dereferences nil, on a zero-value Map
\* it ranges over the nil m.keys.
All(stop) ==
    /\ ret' = IF ptr = "nil"
              THEN Ret("All", 0, stop, "runtime error: invalid memory address or nil pointer dereference", 0, FALSE, <<>>)
              ELSE Ret("All", 0, stop, "", 0, FALSE, AllLoop(1, stop))
    /\ UNCHANGED <<ptr, less, iter, keys, m, mi, closed, snap, out, mod, live>>

\* mi := m.Iter(), assigned to the first *MapIterator variable still nil.
Iter(c) ==
    /\ c \in 1..MaxIters
    /\ mi[c].ref = "nilptr"
    /\ \A d \in 1..(c - 1) : mi[d].ref # "nilptr"
    /\ IF check("ro") # ""
       THEN /\ ret' = Ret("Iter", c, 0, check("ro"), 0, FALSE, <<>>)
            /\ UNCHANGED <<iter, mi, snap, out, mod>>
       ELSE /\ iter' = iter + 1
            /\ mi' = [mi EXCEPT ![c] = [ref |-> "map", i |-> 0]]
            /\ snap' = [snap EXCEPT ![c] = RangeKVs]
            /\ out' = [out EXCEPT ![c] = <<>>]
            /\ mod' = [mod EXCEPT ![c] = FALSE]
            /\ ret' = Ret("Iter", c, 0, "", 0, FALSE, <<>>)
    /\ UNCHANGED <<ptr, less, keys, m, closed, live>>

\* mi.Close(): the decrement of m.iter happens before the misuse panic, and
\* the final "mi = nil" assigns the method's own copy of the receiver only.
Close(c) ==
    IF micheck(c) # ""
    THEN /\ ret' = Ret("Close", c, 0, micheck(c), 0, FALSE, <<>>)
         /\ UNCHANGED <<ptr, less, iter, keys, m, mi, closed, snap, out, mod, live>>
    ELSE /\ iter > -MaxUnderflow
         /\ iter' = iter - 1
         /\ closed' = [closed EXCEPT ![c] = TRUE]
         /\ snap' = [snap EXCEPT ![c] = <<>>]
         /\ ret' = Ret("Close", c, 0,
                       IF iter - 1 < 0
                       THEN "ordered: call to MapIterator.Close while MapIterator is not open"
                       ELSE "",
                       0, FALSE, <<>>)
         /\ UNCHANGED <<ptr, less, keys, m, mi, out, mod, live>>

NextSharedPosition(c) ==
    IF micheck(c) # ""
    THEN /\ ret' = Ret("Next", c, 0, micheck(c), 0, FALSE, <<>>)
         /\ UNCHANGED <<ptr, less, iter, keys, m, mi, closed, snap, out, mod, live>>
    ELSE IF mi[c].i >= Len(keys)
         THEN /\ ret' = Ret("Next", c, 0, "", 0, FALSE, <<>>)
              /\ UNCHANGED <<ptr, less, iter, keys, m, mi, closed, snap, out, mod, live>>
         ELSE /\ mi' = [d \in Handles |-> IF mi[d].ref = "map" THEN [mi[d] EXCEPT !.i = mi[c].i + 1] ELSE mi[d]]
              /\ ret' = Ret("Next", c, 0, "", 0, TRUE,
                            << <<keys[mi[c].i + 1], MapIndex(m, keys[mi[c].i + 1])[1]>> >>)
              /\ out' = [out EXCEPT ![c] =
                            IF mod[c] THEN <<>>
                            ELSE Append(out[c], <<keys[mi[c].i + 1], MapIndex(m, keys[mi[c].i + 1])[1]>>)]
              /\ UNCHANGED <<ptr, less, iter, keys, m, closed, snap, mod, live>>

NextNoBoundsCheck(c) ==
    IF micheck(c) # ""
    THEN /\ ret' = Ret("Next", c, 0, micheck(c), 0, FALSE, <<>>)
         /\ UNCHANGED <<ptr, less, iter, keys, m, mi, closed, snap, out, mod, live>>
    ELSE IF mi[c].i >= Len(keys)
         THEN /\ ret' = Ret("Next", c, 0, "runtime error: index out of range", 0, FALSE, <<>>)
              /\ UNCHANGED <<ptr, less, iter, keys, m, mi, closed, snap, out, mod, live>>
         ELSE /\ mi' = [mi EXCEPT ![c].i = mi[c].i + 1]
              /\ ret' = Ret("Next", c, 0, "", 0, TRUE,
                            << <<keys[mi[c].i + 1], MapIndex(m, keys[mi[c].i + 1])[1]>> >>)
              /\ out' = [out EXCEPT ![c] =
                            IF mod[c] THEN <<>>
                            ELSE Append(out[c], <<keys[mi[c].i + 1], MapIndex(m, keys[mi[c].i + 1])[1]>>)]
              /\ UNCHANGED <<ptr, less, iter, keys, m, closed, snap, mod, live>>

\* mi.Next(): ret.ok is "the result is non-nil", ret.kvs holds the KeyValue.
MapIteratorNext(c) ==
    IF micheck(c) # ""
    THEN /\ ret' = Ret("Next", c, 0, micheck(c), 0, FALSE, <<>>)
         /\ UNCHANGED <<ptr, less, iter, keys, m, mi, closed, snap, out, mod, live>>
    ELSE IF mi[c].i >= Len(keys)
         THEN /\ ret' = Ret("Next", c, 0, "", 0, FALSE, <<>>)
              /\ UNCHANGED <<ptr, less, iter, keys, m, mi, closed, snap, out, mod, live>>
         ELSE /\ mi' = [mi EXCEPT ![c].i = mi[c].i + 1]
              /\ ret' = Ret("Next", c, 0, "", 0, TRUE,
                            << <<keys[mi[c].i + 1], MapIndex(m, keys[mi[c].i + 1])[1]>> >>)
              /\ out' = [out EXCEPT ![c] =
                            IF mod[c] THEN <<>>
                            ELSE Append(out[c], <<keys[mi[c].i + 1], MapIndex(m, keys[mi[c].i + 1])[1]>>)]
              /\ UNCHANGED <<ptr, less, iter, keys, m, closed, snap, mod, live>>

Next ==
    \/ \E f \in Comparators \cup {"nil"} : NewMap(f)
    \/ \E k \in Keys : Get(k)
    \/ \E k \in Keys : TryGet(k)
    \/ MapLen
    \/ \E k \in Keys, v \in Values : Set(k, v)
    \/ \E k \in Keys : Delete(k)
    \/ Reset
    \/ Range
    \/ \E stop \in 1..(MaxKey + 2) : All(stop)
    \/ \E c \in Handles : Iter(c)
    \/ \E c \in Handles : Close(c)
    \/ \E c \in Handles : MapIteratorNext(c)

Spec == Init /\ [][Next]_vars

\* The Map alone: construction, writes and reads, with no MapIterator.
NextMap ==
    \/ \E f \in Comparators \cup {"nil"} : NewMap(f)
    \/ \E k \in Keys : Get(k)
    \/ \E k \in Keys : TryGet(k)
    \/ MapLen
    \/ \E k \in Keys, v \in Values : Set(k, v)
    \/ \E k \in Keys : Delete(k)
    \/ Reset
    \/ Range

SpecMap == Init /\ [][NextMap]_vars

\* The Map alone, with the range-over-func iterator All.
NextAll ==
    \/ NextMap
    \/ \E stop \in 1..(MaxKey + 2) : All(stop)

SpecAll == Init /\ [][NextAll]_vars

----------------------------------------------------------------------------
\* Vocabulary of the properties.

\* The cursors made by Iter on which Close has not been called.
OpenCursors == {c \in Handles : mi[c].ref = "map" /\ ~closed[c]}

WriteOps == {"Set", "Delete", "Reset"}

MapOps == {"Get", "TryGet", "Len", "Set", "Delete", "Reset", "Range", "Iter", "All"}

\* The comparison function f orders every two distinct keys.
TotalOnKeys(f) == \A a, b \in Keys : a # b => (CallLess(f, a, b) \/ CallLess(f, b, a))

\* C1 as stated: every Range() result is strictly increasing under less: for
\* every adjacent pair (a, b) of its keys, less(a, b) is true.
C1_StrictlyIncreasing ==
    (ret.op = "Range" /\ ret.panic = "") =>
        \A i \in 1..(Len(ret.kvs) - 1) : CallLess(less, ret.kvs[i][1], ret.kvs[i + 1][1])

\* C1 as amended: in every Range() result no key sorts before an earlier one
\* (less(b, a) is false for every a that precedes b), and the result is
\* strictly increasing whenever less orders every two distinct keys.
C1_Sorted ==
    (ret.op = "Range" /\ ret.panic = "") =>
        \A i, j \in 1..Len(ret.kvs) : i < j =>
            /\ ~CallLess(less, ret.kvs[j][1], ret.kvs[i][1])
            /\ TotalOnKeys(less) => CallLess(less, ret.kvs[i][1], ret.kvs[j][1])

\* A Range() of a full map ordered by a comparison function with ties.
C1_Witness ==
    /\ ret.op = "Range" /\ ret.panic = ""
    /\ less = "ByHalf"
    /\ Len(ret.kvs) = MaxKey + 1

\* C2: the key list and the map storage are in 1:1 correspondence: every key
\* of m.m occurs exactly once in m.keys, every element of m.keys is a key of
\* m.m, the keys of Range() are the keys TryGet finds, and Len() counts them.
C2_Correspondence ==
    /\ \A k \in DOMAIN m : Cardinality({i \in 1..Len(keys) : keys[i] = k}) = 1
    /\ \A i \in 1..Len(keys) : keys[i] \in DOMAIN m
    /\ {RangeKVs[i][1] : i \in 1..Len(RangeKVs)} = {k \in Keys : MapIndex(m, k)[2]}
    /\ Len(keys) = Cardinality({k \in Keys : MapIndex(m, k)[2]})

\* A cursor was advanced and closed, and a Delete then left a key in the map.
C2_Witness ==
    /\ ret.op = "Delete" /\ ret.panic = ""
    /\ Len(keys) >= 1
    /\ \E c \in Handles : closed[c] /\ mi[c].i >= 1

\* C3: while a cursor made by Iter has not been closed, every Set, Delete
\* and Reset panics.
C3_WriteLocked ==
    [][(OpenCursors # {} /\ ret'.op \in WriteOps) => ret'.panic # ""]_vars

\* C4: on a constructed map with no open cursor, Set, Delete and Reset do not
\* panic.
C4_WritesSucceed ==
    [][(ptr = "new" /\ OpenCursors = {} /\ ret'.op \in WriteOps) => ret'.panic = ""]_vars

\* C5: Close on a cursor that has already been closed panics.
C5_CloseTwicePanics ==
    [][(ret'.op = "Close" /\ closed[ret'.c]) => ret'.panic # ""]_vars

\* C6: Next on a cursor that has been closed panics.
C6_NextAfterClosePanics ==
    [][(ret'.op = "Next" /\ closed[ret'.c]) => ret'.panic # ""]_vars

\* C7: m.iter is non-negative and is the number of cursors made by Iter that
\* have not been closed.
C7_IterCountsOpen ==
    /\ iter >= 0
    /\ iter = Cardinality(OpenCursors)

\* C8: NewMap(nil) panics, every Map method panics on a nil or zero-value
\* Map, and Next and Close panic on a nil or zero-value MapIterator.
C8_UnconstructedPanics ==
    /\ (ret.op = "NewMap" /\ ptr # "new") => ret.panic # ""
    /\ (ret.op \in MapOps /\ ptr # "new") => ret.panic # ""
    /\ (ret.op \in {"Next", "Close"} /\ mi[ret.c].ref # "map") => ret.panic # ""

\* C9: TryGet(k) reports found with v exactly when the latest Set(k, v) has no
\* later Delete(k) or Reset, and Get(k) returns that v, or the zero value
\* when k is absent.
C9_RefinesMap ==
    /\ (ret.op = "TryGet" /\ ret.panic = "") =>
          /\ ret.ok <=> live[ret.k] # <<>>
          /\ ret.v = IF live[ret.k] # <<>> THEN live[ret.k][1] ELSE ZeroV
    /\ (ret.op = "Get" /\ ret.panic = "") =>
          ret.v = IF live[ret.k] # <<>> THEN live[ret.k][1] ELSE ZeroV

\* TryGet misses a key that is gone while finding nothing else amiss: another
\* key is still stored with a non-zero value.
C9_Witness ==
    /\ ret.op = "TryGet" /\ ret.panic = "" /\ ~ret.ok
    /\ \E k \in Keys : k # ret.k /\ live[k] # <<>> /\ live[k][1] # ZeroV
    /\ Len(keys) = 1

\* C10: each Next on an open cursor returns the next pair of the Range() taken
\* when the cursor was made and advances the position by one, and past the
\* last pair it returns nil and leaves the position alone.
C10_NextYieldsSnapshot ==
    [][(ret'.op = "Next" /\ ret'.c \in OpenCursors) =>
          LET c == ret'.c IN
          IF mi[c].i < Len(snap[c])
          THEN /\ ret'.panic = "" /\ ret'.ok
               /\ ret'.kvs = <<snap[c][mi[c].i + 1]>>
               /\ mi'[c].i = mi[c].i + 1
          ELSE /\ ret'.panic = "" /\ ~ret'.ok
               /\ mi'[c].i = mi[c].i]_vars

\* The message of the panic that rejects a write while a cursor is open.
WriteLocked == "ordered: write to Map while MapIterator is not closed"

\* The keys of a slice of KeyValue pairs, in order.
KeysOf(kvs) == [i \in 1..Len(kvs) |-> kvs[i][1]]

\* C11: a Next on one cursor leaves the position of every other cursor alone,
\* and the open cursors of an unmodified map have each been given, pair by
\* pair, the same sequence: the Range() of the map up to their position, and
\* all of it once Next has returned nil.
C11_IndependentCursors ==
    /\ [][ret'.op = "Next" => \A d \in Handles \ {ret'.c} : mi'[d] = mi[d]]_vars
    /\ [](\A c \in OpenCursors : ~mod[c] =>
             /\ mi[c].i <= Len(keys)
             /\ Len(out[c]) = mi[c].i
             /\ out[c] = SubSeq(RangeKVs, 1, mi[c].i)
             /\ \A d \in OpenCursors : (~mod[d] /\ Len(out[c]) <= Len(out[d])) =>
                    out[c] = SubSeq(out[d], 1, Len(out[c]))
             /\ (ret.op = "Next" /\ ret.c = c /\ ret.panic = "" /\ ~ret.ok) =>
                    out[c] = RangeKVs)

\* Two open cursors of an unmodified, full map, one at the end and one behind.
C11_Witness ==
    \E c, d \in OpenCursors :
        /\ ~mod[c] /\ ~mod[d]
        /\ mi[c].i = MaxKey + 1
        /\ mi[d].i = 1

\* C12: Set(k, v2) on a key that is present leaves m.keys and Len() as they
\* are, makes v2 the value of k, and keeps the value of every other key.
C12_OverwriteOnlyValue ==
    [][(ret'.op = "Set" /\ ret'.panic = "" /\ MapIndex(m, ret'.k)[2]) =>
          /\ keys' = keys
          /\ Len(keys') = Len(keys)
          /\ MapIndex(m', ret'.k) = <<live'[ret'.k][1], TRUE>>
          /\ \A x \in Keys \ {ret'.k} : MapIndex(m', x) = MapIndex(m, x)]_vars

\* A Set of a non-zero value on a key that was present, in a full map.
C12_Witness ==
    /\ ret.op = "Set" /\ ret.panic = "" /\ ret.ok
    /\ Len(keys) = MaxKey + 1
    /\ MapIndex(m, ret.k)[1] # ZeroV

\* C13: Delete(k) of a key that is not present changes neither m.keys nor
\* m.m, and after any Delete(k) the key k is not present, so that a second
\* Delete(k) changes nothing.
C13_DeleteAbsentNoOp ==
    [][(ret'.op = "Delete" /\ ret'.panic = "") =>
          /\ ~MapIndex(m, ret'.k)[2] => (keys' = keys /\ m' = m)
          /\ ~MapIndex(m', ret'.k)[2]
          /\ Index(keys', ret'.k) = -1]_vars

\* A Delete that did not find its key, in a map that holds another one.
C13_Witness ==
    /\ ret.op = "Delete" /\ ret.panic = "" /\ ~ret.ok
    /\ Len(keys) >= 1

\* C14 as stated: on a constructed map Get, TryGet and Delete of an absent
\* key, and Next on an open cursor that is past the end, do not panic.
C14_AbsentNeverPanics ==
    [][ptr = "new" =>
          /\ (ret'.op \in {"Get", "TryGet", "Delete"} /\ ~MapIndex(m, ret'.k)[2]) =>
                ret'.panic = ""
          /\ (ret'.op = "Next" /\ ret'.c \in OpenCursors /\ mi[ret'.c].i >= Len(keys)) =>
                ret'.panic = ""]_vars

\* C14 as amended: on a constructed map Get and TryGet of an absent key
\* return the zero value and found=false, Next on an open cursor that is past
\* the end returns nil, and Delete of an absent key is a no-op, none of them
\* panicking; for Delete this holds when m.iter is 0.
C14_AbsentNoPanicUnlessLocked ==
    [][ptr = "new" =>
          /\ (ret'.op \in {"Get", "TryGet"} /\ ~MapIndex(m, ret'.k)[2]) =>
                (ret'.panic = "" /\ ret'.v = ZeroV /\ ~ret'.ok)
          /\ (ret'.op = "Delete" /\ ~MapIndex(m, ret'.k)[2] /\ iter = 0) =>
                (ret'.panic = "" /\ keys' = keys /\ m' = m)
          /\ (ret'.op = "Next" /\ ret'.c \in OpenCursors /\ mi[ret'.c].i >= Len(keys)) =>
                (ret'.panic = "" /\ ~ret'.ok /\ mi' = mi)]_vars

\* Next returned nil on an open cursor that had yielded every pair.
C14_Witness ==
    /\ ret.op = "Next" /\ ret.panic = "" /\ ~ret.ok
    /\ ret.c \in OpenCursors
    /\ mi[ret.c].i = Len(keys)
    /\ Len(keys) >= 1

\* C15: a successful Reset leaves no key (Len() is 0, Range() is empty,
\* TryGet finds nothing) and keeps the comparison function, and every later
\* Range() holds exactly the keys set since and not deleted, in the order of
\* the comparison function.
C15_ResetClears ==
    /\ [][(ret'.op = "Reset" /\ ret'.panic = "") =>
             /\ Len(keys') = 0
             /\ RangeKVs' = <<>>
             /\ \A k \in Keys : ~MapIndex(m', k)[2]
             /\ less' = less /\ ptr' = ptr]_vars
    /\ []((ret.op = "Range" /\ ret.panic = "") =>
             /\ {ret.kvs[i][1] : i \in 1..Len(ret.kvs)} = {k \in Keys : live[k] # <<>>}
             /\ Len(ret.kvs) = Cardinality({k \in Keys : live[k] # <<>>})
             /\ IsSortedFunc(KeysOf(ret.kvs), less))

\* A successful Reset of a map ordered by a comparison function with ties.
C15_Witness ==
    /\ ret.op = "Reset" /\ ret.panic = ""
    /\ less = "ByHalf"

\* C16: ranging over All() on a constructed map passes to yield the pairs of
\* Range(), in order, one call per key, up to and including the call on which
\* yield returns false.
C16_AllYieldsRange ==
    (ret.op = "All" /\ ptr = "new") =>
        /\ ret.panic = ""
        /\ Len(ret.kvs) = IF ret.k < Len(keys) THEN ret.k ELSE Len(keys)
        /\ ret.kvs = SubSeq(RangeKVs, 1, Len(ret.kvs))

\* A loop over a full map that broke in its first iteration.
C16_Witness ==
    /\ ret.op = "All" /\ ret.panic = "" /\ ptr = "new"
    /\ ret.k = 1
    /\ Len(keys) = MaxKey + 1
    /\ Len(ret.kvs) = 1

\* C17: on a constructed map Get, TryGet, Len and Range return without a
\* panic and change none of m.m, m.keys, m.iter and the cursors; Next on an
\* open cursor returns without a panic, changes neither m.m nor m.keys, and
\* the value of the pair it returns is the value stored for its key.
C17_ReadsAreReadOnly ==
    [][ptr = "new" =>
          /\ ret'.op \in {"Get", "TryGet", "Len", "Range"} =>
                (ret'.panic = "" /\ UNCHANGED <<keys, m, iter, mi>>)
          /\ (ret'.op = "Next" /\ ret'.c \in OpenCursors) =>
                /\ ret'.panic = ""
                /\ UNCHANGED <<keys, m>>
                /\ ret'.ok => ret'.kvs[1][2] = MapIndex(m, ret'.kvs[1][1])[1]]_vars

\* A Range() of a non-empty map while two cursors are open.
C17_Witness ==
    /\ ret.op = "Range" /\ ret.panic = ""
    /\ Cardinality(OpenCursors) = 2
    /\ Len(ret.kvs) >= 1

\* C18: a Set, Delete or Reset that panics because a cursor is open changes
\* none of m.m, m.keys, m.iter and the cursors.
C18_RejectedWriteChangesNothing ==
    [][(ret'.op \in WriteOps /\ ret'.panic = WriteLocked) =>
          UNCHANGED <<ptr, less, keys, m, iter, mi>>]_vars

\* A Set rejected on a non-empty map while a cursor is open.
C18_Witness ==
    /\ ret.op = "Set" /\ ret.panic = WriteLocked
    /\ OpenCursors # {}
    /\ Len(keys) >= 1

====
